---- MODULE Spec2Model ----
(***************************************************************************)
(* Sign-in-with-wallet authentication of the SplitPayment demo:            *)
(*   lib/auth.ts                 the shared nonce store (a Set + timers)   *)
(*   app/api/auth/nonce/route.ts GET: issue a nonce                        *)
(*   app/api/auth/verify/route.ts POST / GET / DELETE and the session map  *)
(*                                                                         *)
(* JavaScript handlers run to completion between awaits, so every action   *)
(* below is one synchronous stretch of a handler.  Time is Date.now() in   *)
(* abstract units; a setTimeout callback runs at or after its due time,    *)
(* never before, and with no upper bound on how late.                      *)
(* crypto.randomBytes(32) is modelled as a source of tokens that never     *)
(* repeats; crypto.randomBytes(16) may return any nonce value, because     *)
(* addNonce is specified (and exported) for values already in the store.   *)
(***************************************************************************)
EXTENDS Integers, Sequences, FiniteSets, TLC

\* ---------------------------------------------------------------- bounds
MaxTime == 3

\* ------------------------------------------------------- program constants
\* lib/auth.ts:32   10 * 60 * 1000 ms, in abstract time units
NonceTTL == 1
\* verify/route.ts:119   7 * 24 * 60 * 60 * 1000 ms, in abstract time units
sevenDays == 2

Nonces == {"n1", "n2"}
Addrs == {"a1", "a2"}
\* the POST requests that can be in flight at once
Reqs == {1, 2}
\* the GET /api/auth/nonce requests clients make
NonceRequests == {"g1", "g2"}
\* a session needs a consumed nonce, so they bound the tokens handed out
Tokens == 1..Cardinality(NonceRequests)
\* a token of 0 stands for a missing (falsy) token in a request
TokenInputs == {0} \cup Tokens

\* A message is the sequence of its lines: a line is either a "Nonce: <hex>"
\* line (named by its nonce) or other text.  The empty message is falsy.
Messages ==
  {<<>>, <<"txt">>}
    \cup {<<n>> : n \in Nonces}
    \cup {<<"txt", n>> : n \in Nonces}
    \cup {<<n, m>> : n \in Nonces, m \in Nonces}

\* request bodies: well-formed ones, and one with each field missing
Bodies ==
  [address : Addrs, message : Messages \ {<<>>}, signature : {"sig"}]
    \cup {[address |-> "", message |-> <<"n1">>, signature |-> "sig"],
          [address |-> "a1", message |-> <<>>, signature |-> "sig"],
          [address |-> "a1", message |-> <<"n1">>, signature |-> ""]}

VARIABLES
  now,       \* Date.now()
  nonces,    \* lib/auth.ts: the Set of outstanding nonces
  timers,    \* pending setTimeout callbacks of addNonce: [nonce, due]
  sessions,  \* verify/route.ts: token -> [address, createdAt, expiresAt]
  req,       \* POST requests awaiting the verifier: position and live locals
  resp,      \* the response sent by the latest step (NoResp if it sent none)
  minted,    \* history: the tokens handed out, in order, with what the
             \*   verifier was asked and answered
  issued,    \* history: number of addNonce(n) calls
  addedAt,   \* history: time of the latest addNonce(n)
  tried,     \* history: consumeNonce(n) was called since the latest add
  passed,    \* history: number of consumeNonce(n) calls that returned true
  burned,    \* history: nonces consumed by a request whose verification failed
  revoked,   \* history: minted tokens a DELETE request named
  again,     \* history: the DELETE just answered named a token that an
             \*   earlier DELETE had named
  authState,    \* useAuth.ts: the hook's React state
  localStorage, \* the browser's localStorage: sessionToken, userAddress
  calls,        \* useAuth.ts: the hook's async functions, each at an await
  pay           \* SplitPayment.tsx: the component's state and the run of
                \*   handleSplitPayment, at an await

vars == <<now, nonces, timers, sessions, req, resp, minted, issued,
          addedAt, tried, passed, burned, revoked, again,
          authState, localStorage, calls, pay>>

\* the browser side, which no route handler touches
client == <<authState, localStorage, calls>>

hist == <<minted, issued, addedAt, tried, passed, burned, revoked, again>>

\* ------------------------------------------------------------- responses
Resp(op, kind, status, nonce, token, address, expires) ==
  [op |-> op, kind |-> kind, status |-> status, nonce |-> nonce,
   token |-> token, address |-> address, expires |-> expires]

NoResp == Resp("none", "none", 0, "", 0, "", 0)

IdleReq == [pc |-> "idle", address |-> "", nonce |-> ""]

\* ------------------------------------------------------------ lib/auth.ts
\* nonces.add(nonce)
addNonceStore(S, n) == S \cup {n}

\* setTimeout(() => nonces.delete(nonce), 10 * 60 * 1000)
addNonceTimer(n, t) == [nonce |-> n, due |-> t + NonceTTL]

\* verifyNonce: const exists = nonces.has(nonce); return exists
verifyNonce(S, n) == n \in S

\* mutant: consumeNonce answers true whether or not the nonce is stored
consumeNonceResult_always(S, n) == TRUE

\* const deleted = nonces.delete(nonce); return deleted
consumeNonceResult(S, n) == n \in S

\* mutant: consumeNonce looks the nonce up and leaves it in the store
consumeNonceStore_keep(S, n) == S

consumeNonceStore(S, n) == S \ {n}

\* ------------------------------------------------------- verify/route.ts
\* mutant: the pattern is too wide and takes the first line, whatever it is
nonceMatch_anyLine(message) ==
  IF message = <<>> THEN "" ELSE Head(message)

\* message.match(/Nonce: ([a-f0-9]+)/i): the first match, or null ("")
RECURSIVE nonceMatch(_)
nonceMatch(message) ==
  IF message = <<>> THEN ""
  ELSE IF Head(message) \in Nonces THEN Head(message)
  ELSE nonceMatch(Tail(message))

\* !address || !message || !signature
missingFields(body) ==
  body.address = "" \/ body.message = <<>> \/ body.signature = ""

\* sessions.set(sessionToken, {address, createdAt: now, expiresAt: now + sevenDays})
sessionRecord(address, t) ==
  [address |-> address, createdAt |-> t, expiresAt |-> t + sevenDays]

\* sevenDays as the code computes it, in milliseconds (the model's clock
\* counts it as the sevenDays units above)
sevenDaysMs == 7 * 24 * 60 * 60 * 1000

\* mutant: the division is forgotten and the response reports milliseconds
expiresIn_ms(ms) == ms

\* expiresIn: sevenDays / 1000, the TTL in seconds
expiresIn(ms) == ms \div 1000

\* mutant: a session counts as expired from expiresAt on (>= for >)
sessionExpired_early(session, t) == t >= session.expiresAt

\* Date.now() > session.expiresAt
sessionExpired(session, t) == t > session.expiresAt

\* mutant: the sweep's test is inverted and removes the live sessions
sweepSessions_inverted(S, t) ==
  [k \in {x \in DOMAIN S : sessionExpired(S[x], t)} |-> S[k]]

\* the setInterval callback: delete every session with now > expiresAt
sweepSessions(S, t) ==
  [k \in {x \in DOMAIN S : ~sessionExpired(S[x], t)} |-> S[k]]

\* mutant: the delete is lost
deleteSession_lost(S, token) == S

\* sessions.delete(token)
deleteSession(S, token) == [k \in DOMAIN S \ {token} |-> S[k]]

\* mutant: the session GET restarts the session's clock (sliding expiry)
touchSession_slide(S, token, t) ==
  [S EXCEPT ![token] = [address |-> S[token].address, createdAt |-> t,
                        expiresAt |-> t + sevenDays]]

\* the session GET leaves a live session as it is
touchSession(S, token, t) == S

\* mutant: the "if (!isValid)" test lets a false answer through
isValid_any(outcome) == TRUE

\* isValid after "isValid = await publicClient.verifyMessage(...)" returned
isValid(outcome) == outcome = "true"

\* mutant: DELETE reports a token it does not find as an error
deleteResponse_strict(S, token) ==
  IF token \in DOMAIN S
  THEN Resp("DELETE", "SignedOut", 200, "", token, "", 0)
  ELSE Resp("DELETE", "InvalidSession", 404, "", token, "", 0)

\* return NextResponse.json({success: true, ...}) whatever delete returned
deleteResponse(S, token) == Resp("DELETE", "SignedOut", 200, "", token, "", 0)

\* mutant: a failed verification puts the nonce back for a retry
afterFailedVerify_restore(S, n) == S \cup {n}

\* the nonce store after a failed verification: the handler returns 401 and
\* does nothing to the store
afterFailedVerify(S, n) == S

\* --------------------------------------------- app/hooks/useAuth.ts
\* null is "" for an address or an error text and 0 for a token
\* useState<AuthState>({...}): the state of a freshly mounted hook
initialAuthState ==
  [isAuthenticated |-> FALSE, address |-> "", sessionToken |-> 0,
   isLoading |-> TRUE, error |-> ""]

\* setAuthState({isAuthenticated: true, address, sessionToken, ...})
authenticated(address, sessionToken) ==
  [isAuthenticated |-> TRUE, address |-> address,
   sessionToken |-> sessionToken, isLoading |-> FALSE, error |-> ""]

\* setAuthState({isAuthenticated: false, address: null, sessionToken: null, ...})
signedOut ==
  [isAuthenticated |-> FALSE, address |-> "", sessionToken |-> 0,
   isLoading |-> FALSE, error |-> ""]

\* mutant: the end of the mount check marks the client authenticated
loaded_authenticated(prev) ==
  [prev EXCEPT !.isLoading = FALSE, !.isAuthenticated = TRUE]

\* setAuthState((prev) => ({...prev, isLoading: false}))
loaded(prev) == [prev EXCEPT !.isLoading = FALSE]

\* localStorage with neither item
emptyStorage == [sessionToken |-> 0, userAddress |-> ""]

\* mutant: the items are left in localStorage
removeItems_keep(storage) == storage

\* localStorage.removeItem("sessionToken"); localStorage.removeItem("userAddress")
removeItems(storage) == emptyStorage

\* the async functions of a freshly mounted hook: the mount effect is about
\* to run, signIn and signOut have not been called
freshCalls ==
  [checkSession |-> [pc |-> "start", token |-> 0, address |-> ""],
   signIn |-> [pc |-> "idle", address |-> ""],
   signOut |-> [pc |-> "idle"]]

\* SplitPayment.tsx: const calls = [ {to: recipient1}, {to: recipient2},
\* {to: recipient3} ]
callsLength == 3

\* the component's state after mount, handleSplitPayment not running
initialPay ==
  [recipient |-> [k \in 1..callsLength |-> ""],
   pc |-> "idle", i |-> 0, status |-> "idle", txHash |-> "",
   errorMessage |-> "", usedBatchMode |-> FALSE, walletClient |-> FALSE,
   fallback |-> FALSE, sent |-> 0]

\* how a fetch settles: a response with ok, one without, or a rejection
FetchOutcomes == {"ok", "notok", "reject"}

\* error.code === 4001 ? "User rejected signature request"
\*                     : error.message || "Authentication failed"
errorMessage(error) ==
  IF error.code = 4001 THEN "User rejected signature request"
  ELSE IF error.message # "" THEN error.message
  ELSE "Authentication failed"

\* --------------------------------------------------------------- initial
Init ==
  /\ now = 0
  /\ nonces = {}
  /\ timers = {}
  /\ sessions = <<>>
  /\ req = [r \in Reqs |-> IdleReq]
  /\ resp = NoResp
  /\ minted = <<>>
  /\ issued = [n \in Nonces |-> 0]
  /\ addedAt = [n \in Nonces |-> 0]
  /\ tried = [n \in Nonces |-> FALSE]
  /\ passed = [n \in Nonces |-> 0]
  /\ burned = {}
  /\ revoked = {}
  /\ again = FALSE
  /\ authState = initialAuthState
  /\ localStorage = emptyStorage
  /\ calls = freshCalls
  /\ pay = initialPay

RECURSIVE SumOver(_, _)
SumOver(f, S) ==
  IF S = {} THEN 0
  ELSE LET x == CHOOSE y \in S : TRUE IN f[x] + SumOver(f, S \ {x})

\* ------------------------------------------------- nonce/route.ts: GET
NonceGET ==
  \E n \in Nonces :
    /\ resp = NoResp
    /\ SumOver(issued, Nonces) < Cardinality(NonceRequests)
    /\ nonces' = addNonceStore(nonces, n)
    /\ timers' = timers \cup {addNonceTimer(n, now)}
    /\ resp' = Resp("NonceGET", "Nonce", 200, n, 0, "", 0)
    /\ issued' = [issued EXCEPT ![n] = @ + 1]
    /\ addedAt' = [addedAt EXCEPT ![n] = now]
    /\ tried' = [tried EXCEPT ![n] = FALSE]
    /\ burned' = burned \ {n}
    /\ UNCHANGED <<client, pay, now, sessions, req, minted, passed, revoked,
                   again>>

\* the setTimeout callback of addNonce
TimerFire ==
  \E tm \in timers :
    /\ resp = NoResp
    /\ now >= tm.due
    /\ nonces' = nonces \ {tm.nonce}
    /\ timers' = timers \ {tm}
    /\ resp' = NoResp
    /\ UNCHANGED <<client, pay, now, sessions, req, hist>>

\* ------------------------------------------------ verify/route.ts: POST
\* requests are anonymous: a new one takes the first free place
FirstIdle(r) ==
  /\ req[r].pc = "idle"
  /\ \A q \in Reqs : q < r => req[q].pc # "idle"

\* request.json() threw: the outer catch answers 500
POSTBadJson(r) ==
  /\ resp = NoResp
  /\ FirstIdle(r)
  /\ resp' = Resp("POST", "AuthFailed", 500, "", 0, "", 0)
  /\ UNCHANGED <<client, pay, now, nonces, timers, sessions, req, hist>>

\* from the parsed body to the first response or to the verifier call
\* (nothing of the store is read before request.json() resolves)
POSTBodyWith(r, body) ==
  /\ resp = NoResp
  /\ FirstIdle(r)
  /\ LET nonce == nonceMatch(body.message) IN
     IF missingFields(body) THEN
       /\ resp' = Resp("POST", "MissingFields", 400, "", 0, "", 0)
       /\ UNCHANGED <<nonces, req, tried, passed>>
     ELSE IF nonce = "" THEN
       /\ resp' = Resp("POST", "MalformedMessage", 400, "", 0, "", 0)
       /\ UNCHANGED <<nonces, req, tried, passed>>
     ELSE
       /\ nonces' = consumeNonceStore(nonces, nonce)
       /\ tried' = [tried EXCEPT ![nonce] = TRUE]
       /\ IF consumeNonceResult(nonces, nonce) THEN
            /\ req' = [req EXCEPT ![r] =
                         [pc |-> "verifying", address |-> body.address,
                          nonce |-> nonce]]
            /\ passed' = [passed EXCEPT ![nonce] = @ + 1]
            /\ resp' = NoResp
          ELSE
            /\ resp' = Resp("POST", "InvalidNonce", 401, nonce, 0, "", 0)
            /\ UNCHANGED <<req, passed>>
  /\ UNCHANGED <<client, pay, now, timers, sessions, minted, issued, addedAt,
                 burned, revoked, again>>

POSTBody(r) == \E body \in Bodies : POSTBodyWith(r, body)

\* publicClient.verifyMessage settles: true, false, or a rejection
Outcomes == {"true", "false", "throw"}

POSTVerifiedWith(r, outcome) ==
  /\ resp = NoResp
  /\ req[r].pc = "verifying"
  /\ LET a == req[r].address
         n == req[r].nonce
         token == Len(minted) + 1
     IN
     IF outcome = "throw" THEN
       /\ resp' = Resp("POST", "VerificationFailed", 401, n, 0, "", 0)
       /\ nonces' = afterFailedVerify(nonces, n)
       /\ burned' = burned \cup {n}
       /\ UNCHANGED <<sessions, minted>>
     ELSE IF ~isValid(outcome) THEN
       /\ resp' = Resp("POST", "InvalidSignature", 401, n, 0, "", 0)
       /\ nonces' = afterFailedVerify(nonces, n)
       /\ burned' = burned \cup {n}
       /\ UNCHANGED <<sessions, minted>>
     ELSE
       /\ token \in Tokens
       /\ sessions' = (token :> sessionRecord(a, now)) @@ sessions
       /\ minted' = Append(minted, [address |-> a, createdAt |-> now,
                                    nonce |-> n, verdict |-> outcome])
       /\ resp' = Resp("POST", "OK", 200, n, token, a, expiresIn(sevenDaysMs))
       /\ UNCHANGED <<nonces, burned>>
  /\ req' = [req EXCEPT ![r] = IdleReq]
  /\ UNCHANGED <<client, pay, now, timers, issued, addedAt, tried, passed,
                 revoked, again>>

POSTVerified(r) == \E outcome \in Outcomes : POSTVerifiedWith(r, outcome)

\* ------------------------------------------------- verify/route.ts: GET
SessionGET ==
  \E token \in TokenInputs :
    /\ resp = NoResp
    /\ IF token = 0 THEN
         /\ resp' = Resp("GET", "MissingToken", 400, "", token, "", 0)
         /\ UNCHANGED sessions
       ELSE IF token \notin DOMAIN sessions THEN
         /\ resp' = Resp("GET", "InvalidSession", 401, "", token, "", 0)
         /\ UNCHANGED sessions
       ELSE IF sessionExpired(sessions[token], now) THEN
         /\ sessions' = deleteSession(sessions, token)
         /\ resp' = Resp("GET", "SessionExpired", 401, "", token, "", 0)
       ELSE
         /\ sessions' = touchSession(sessions, token, now)
         /\ resp' = Resp("GET", "Valid", 200, "", token,
                         sessions[token].address, sessions[token].expiresAt)
    /\ UNCHANGED <<client, pay, now, nonces, timers, req, hist>>

\* ---------------------------------------------- verify/route.ts: DELETE
SessionDELETE ==
  \E token \in TokenInputs :
    /\ resp = NoResp
    /\ IF token = 0 THEN
         /\ resp' = Resp("DELETE", "MissingToken", 400, "", token, "", 0)
         /\ UNCHANGED <<sessions, revoked, again>>
       ELSE
         /\ sessions' = deleteSession(sessions, token)
         /\ revoked' = IF token <= Len(minted)
                       THEN revoked \cup {token} ELSE revoked
         /\ again' = (token \in revoked)
         /\ resp' = deleteResponse(sessions, token)
    /\ UNCHANGED <<client, pay, now, nonces, timers, req, minted, issued, addedAt,
                   tried, passed, burned>>

\* request.json() threw in DELETE: the catch answers 500
SessionDELETEBadJson ==
  /\ resp = NoResp
  /\ resp' = Resp("DELETE", "SignOutFailed", 500, "", 0, "", 0)
  /\ UNCHANGED <<client, pay, now, nonces, timers, sessions, req, hist>>

\* ------------------------------------- verify/route.ts: setInterval sweep
SessionSweep ==
  /\ resp = NoResp
  /\ sessions' = sweepSessions(sessions, now)
  /\ resp' = NoResp
  /\ UNCHANGED <<client, pay, now, nonces, timers, req, hist>>

\* ------------------------------------------------------------- responses
\* The framework sends the response a handler returned.  No handler reads
\* resp, so sending it before the next handler runs loses no behaviour of
\* the stores.
Respond ==
  /\ resp # NoResp
  /\ resp' = NoResp
  /\ again' = FALSE
  /\ UNCHANGED <<client, pay, now, nonces, timers, sessions, req, minted, issued,
                 addedAt, tried, passed, burned, revoked>>

\* ------------------------------------------------------------------ time
Tick ==
  /\ resp = NoResp
  /\ now < MaxTime
  /\ now' = now + 1
  /\ resp' = NoResp
  /\ UNCHANGED <<client, pay, nonces, timers, sessions, req, hist>>

Next ==
  \/ NonceGET
  \/ TimerFire
  \/ \E r \in Reqs : POSTBadJson(r)
  \/ \E r \in Reqs : POSTBody(r)
  \/ \E r \in Reqs : POSTVerified(r)
  \/ SessionGET
  \/ SessionDELETE
  \/ SessionDELETEBadJson
  \/ SessionSweep
  \/ Respond
  \/ Tick

Spec == Init /\ [][Next]_vars

\* What the event loop guarantees: a response a handler returned is sent, a
\* timer or interval callback that is due runs, and time passes.  Nothing
\* makes a client send a request, and nothing in the handler makes the
\* verifier answer: POST awaits publicClient.verifyMessage with no timeout
\* of its own, so POSTVerified carries no fairness.
Fairness ==
  /\ WF_vars(Respond)
  /\ WF_vars(TimerFire)
  /\ WF_vars(SessionSweep)
  /\ WF_vars(Tick)

LiveSpec == Spec /\ Fairness

\* ------------------------------------------- the stores left to themselves
\* lib/auth.ts verifyNonce, called from outside the routes (no route calls
\* it): the answer is all the caller gets, the store is only read.
VerifyNonceCall ==
  \E n \in Nonces :
    /\ resp = NoResp
    /\ resp' = Resp("verifyNonce",
                    IF verifyNonce(nonces, n) THEN "true" ELSE "false",
                    0, n, 0, "", 0)
    /\ UNCHANGED <<client, pay, now, nonces, timers, sessions, req, hist>>

\* The entries are made by the nonce GET and by sign-ins; no session GET and
\* no DELETE names a token, so whatever leaves the session store was swept.
StoreNext ==
  \/ NonceGET
  \/ VerifyNonceCall
  \/ TimerFire
  \/ \E r \in Reqs : POSTBody(r)
  \/ \E r \in Reqs : POSTVerified(r)
  \/ SessionSweep
  \/ Respond
  \/ Tick

\* The event loop runs its timers phase on every turn, between any two
\* request handlers: a setTimeout or setInterval callback that is due again
\* and again is run (strong fairness), and the clock moves on.
StoreFairness ==
  /\ WF_vars(Respond)
  /\ SF_vars(TimerFire)
  /\ SF_vars(SessionSweep)
  /\ SF_vars(Tick)

StoreSpec == Init /\ [][StoreNext]_vars /\ StoreFairness

\* ---------------------------------------------- app/hooks/useAuth.ts
\* The hook sees the server only through fetch: a response that is ok, one
\* that is not, or a rejected promise.  Each action is the stretch of one of
\* the hook's async functions between two awaits.
server == <<now, nonces, timers, sessions, req, resp, hist>>

\* the mount effect: checkSession up to its fetch
checkSessionStart ==
  /\ calls.checkSession.pc = "start"
  /\ LET storedToken == localStorage.sessionToken
         storedAddress == localStorage.userAddress
     IN
     IF storedToken # 0 /\ storedAddress # "" THEN
       /\ calls' = [calls EXCEPT !.checkSession =
                      [pc |-> "fetching", token |-> storedToken,
                       address |-> storedAddress]]
       /\ UNCHANGED authState
     ELSE
       /\ authState' = loaded(authState)
       /\ calls' = [calls EXCEPT !.checkSession.pc = "done"]
  /\ UNCHANGED <<localStorage, server, pay>>

\* checkSession after fetch(`/api/auth/verify?token=...`) settled
checkSessionSettled(outcome) ==
  /\ calls.checkSession.pc = "fetching"
  /\ calls' = [calls EXCEPT !.checkSession.pc = "done"]
  /\ IF outcome = "ok" THEN
       /\ authState' = authenticated(calls.checkSession.address,
                                     calls.checkSession.token)
       /\ UNCHANGED localStorage
     ELSE IF outcome = "notok" THEN
       /\ localStorage' = removeItems(localStorage)
       /\ authState' = loaded(authState)
     ELSE
       /\ authState' = loaded(authState)
       /\ UNCHANGED localStorage
  /\ UNCHANGED <<server, pay>>

\* signIn's catch block
signInCatch(error) ==
  /\ authState' = [authState EXCEPT !.isLoading = FALSE,
                                    !.error = errorMessage(error)]
  /\ calls' = [calls EXCEPT !.signIn = [pc |-> "idle", address |-> ""]]
  /\ UNCHANGED <<localStorage, server, pay>>

\* signIn up to fetch("/api/auth/nonce")
signInStart ==
  /\ calls.signIn.pc = "idle"
  /\ authState' = [authState EXCEPT !.isLoading = TRUE, !.error = ""]
  /\ calls' = [calls EXCEPT !.signIn.pc = "nonce"]
  /\ UNCHANGED <<localStorage, server, pay>>

\* the nonce fetch settled: on to wallet_switchEthereumChain, or throw
signInNonce(outcome) ==
  /\ calls.signIn.pc = "nonce"
  /\ IF outcome = "ok" THEN
       /\ calls' = [calls EXCEPT !.signIn.pc = "switch"]
       /\ UNCHANGED <<authState, localStorage, server, pay>>
     ELSE IF outcome = "notok" THEN
       signInCatch([code |-> 0, message |-> "Failed to fetch nonce"])
     ELSE
       signInCatch([code |-> 0, message |-> "Failed to fetch"])

\* the chain switch settled, resolved or rejected: on to wallet_connect
signInSwitched ==
  /\ calls.signIn.pc = "switch"
  /\ calls' = [calls EXCEPT !.signIn.pc = "connect"]
  /\ UNCHANGED <<authState, localStorage, server, pay>>

\* what wallet_connect can settle with
WalletResults ==
  {[kind |-> "rejected", address |-> ""],
   [kind |-> "failed", address |-> ""],
   [kind |-> "noAccounts", address |-> ""],
   [kind |-> "noSiwe", address |-> ""]}
    \cup {[kind |-> "signed", address |-> a] : a \in Addrs \cup {""}}

\* wallet_connect settled: on to the verify POST, or throw
signInConnected(result) ==
  /\ calls.signIn.pc = "connect"
  /\ IF result.kind = "signed" THEN
       /\ calls' = [calls EXCEPT !.signIn =
                      [pc |-> "verify", address |-> result.address]]
       /\ UNCHANGED <<authState, localStorage, server, pay>>
     ELSE IF result.kind = "rejected" THEN
       signInCatch([code |-> 4001, message |-> "User rejected the request"])
     ELSE IF result.kind = "failed" THEN
       signInCatch([code |-> 0, message |-> ""])
     ELSE IF result.kind = "noAccounts" THEN
       signInCatch([code |-> 0, message |-> "No accounts returned from wallet"])
     ELSE
       signInCatch([code |-> 0,
                    message |-> "Missing SIWE data from wallet response"])

\* the verify POST settled: store the session, or throw.  A response that is
\* not ok carries the server's error text, which may be missing.  A body
\* whose address is missing is answered 400 (verify/route.ts:55-60), never ok.
signInVerified(outcome, sessionToken, error) ==
  /\ calls.signIn.pc = "verify"
  /\ (outcome = "ok") => (calls.signIn.address # "")
  /\ IF outcome = "ok" THEN
       /\ localStorage' = [sessionToken |-> sessionToken,
                           userAddress |-> calls.signIn.address]
       /\ authState' = authenticated(calls.signIn.address, sessionToken)
       /\ calls' = [calls EXCEPT !.signIn = [pc |-> "idle", address |-> ""]]
       /\ UNCHANGED <<server, pay>>
     ELSE IF outcome = "notok" THEN
       signInCatch([code |-> 0,
                    message |-> IF error # "" THEN error
                                ELSE "Signature verification failed"])
     ELSE
       signInCatch([code |-> 0, message |-> "Failed to fetch"])

\* signOut up to its fetch, or to its end when there is no session token
signOutStart ==
  /\ calls.signOut.pc = "idle"
  /\ LET sessionToken == authState.sessionToken IN
     IF sessionToken # 0 THEN
       /\ calls' = [calls EXCEPT !.signOut.pc = "deleting"]
       /\ UNCHANGED <<authState, localStorage>>
     ELSE
       /\ localStorage' = removeItems(localStorage)
       /\ authState' = signedOut
       /\ UNCHANGED calls
  /\ UNCHANGED <<server, pay>>

\* the DELETE fetch settled: a response (ok or not) goes on in the try
\* block, a rejection goes to the catch block
signOutSettled(outcome) ==
  /\ calls.signOut.pc = "deleting"
  /\ calls' = [calls EXCEPT !.signOut.pc = "idle"]
  /\ IF outcome # "reject" THEN
       /\ localStorage' = removeItems(localStorage)
       /\ authState' = signedOut
     ELSE
       /\ authState' = signedOut
       /\ UNCHANGED localStorage
  /\ UNCHANGED <<server, pay>>

\* the page is loaded again: the hook mounts afresh, the pending promises
\* of the old page are gone, localStorage stays
Reload ==
  /\ authState' = initialAuthState
  /\ calls' = freshCalls
  /\ UNCHANGED <<localStorage, server, pay>>

ClientNext ==
  \/ checkSessionStart
  \/ \E outcome \in FetchOutcomes : checkSessionSettled(outcome)
  \/ signInStart
  \/ \E outcome \in FetchOutcomes : signInNonce(outcome)
  \/ signInSwitched
  \/ \E result \in WalletResults : signInConnected(result)
  \/ \E outcome \in FetchOutcomes, sessionToken \in Tokens,
        error \in {"Invalid signature", ""} :
          signInVerified(outcome, sessionToken, error)
  \/ signOutStart
  \/ \E outcome \in FetchOutcomes : signOutSettled(outcome)
  \/ Reload

ClientSpec == Init /\ [][ClientNext]_vars

\* ------------------------------ SplitPayment.tsx: handleSplitPayment
\* The handler's run between two awaits is one action.  pay.sent counts the
\* transfers the wallet accepted in the current run (history).

\* an error thrown to the handler's outer catch block:
\* error.code === 4001 ? "Transaction rejected by user" : ...
paymentErrorMessage(error) ==
  IF error.code = 4001 THEN "Transaction rejected by user"
  ELSE IF error.message = "insufficient funds"
    THEN "Insufficient balance for transaction"
  ELSE IF error.message = "invalid address"
    THEN "One or more recipient addresses are invalid"
  ELSE IF error.message # "" THEN error.message
  ELSE "Transaction failed"

\* the outer catch block: setErrorMessage(...); setStatus("error")
paymentCatch(p, error) ==
  [p EXCEPT !.pc = "idle", !.status = "error",
            !.errorMessage = paymentErrorMessage(error)]

\* executeSeparateTransactions up to its first walletClient.sendTransaction
executeSeparateTransactions(p) ==
  IF ~p.walletClient
  THEN paymentCatch(p, [code |-> 0, message |-> "Wallet client not available"])
  ELSE [p EXCEPT !.pc = "separate", !.i = 0]

\* what a wallet request can settle with: a hash, or a thrown error
WalletErrors ==
  {[code |-> 4001, message |-> "User rejected the request"],
   [code |-> 0, message |-> "insufficient funds"],
   [code |-> 0, message |-> "invalid address"],
   [code |-> 0, message |-> ""]}

WalletAnswers ==
  {[kind |-> "sent", error |-> [code |-> 0, message |-> ""]]}
    \cup {[kind |-> "threw", error |-> e] : e \in WalletErrors}

\* what a recipient input can hold: nothing, or an address
RecipientInputs == {"", "0xr"}

\* onChange of the k-th recipient input: setRecipient1 .. setRecipient3
setRecipient(k, value) ==
  /\ pay.recipient[k] # value
  /\ pay' = [pay EXCEPT !.recipient[k] = value]
  /\ UNCHANGED <<client, server>>

\* handleSplitPayment from the click to its first await (or to its return);
\* the button is disabled while status is "pending"
handleSplitPayment(address, isCoinbase, sdk, walletClient) ==
  /\ pay.status # "pending"
  /\ IF address = "" THEN
       pay' = [pay EXCEPT !.errorMessage = "Please connect your wallet first",
                          !.status = "error", !.sent = 0]
     ELSE IF \E k \in 1..callsLength : pay.recipient[k] = "" THEN
       pay' = [pay EXCEPT !.errorMessage = "Please enter all recipient addresses",
                          !.status = "error", !.sent = 0]
     ELSE
       LET p == [pay EXCEPT !.status = "pending", !.errorMessage = "",
                            !.txHash = "", !.usedBatchMode = FALSE,
                            !.walletClient = walletClient,
                            !.fallback = FALSE, !.i = 0, !.sent = 0]
       IN
       IF isCoinbase /\ sdk
       THEN pay' = [p EXCEPT !.pc = "batch"]
       ELSE pay' = executeSeparateTransactions(
                     [p EXCEPT !.errorMessage = "Note: separate transactions"])
  /\ UNCHANGED <<client, server>>

\* executeBatchWithSDK's wallet_sendCalls settled: success, or the inner
\* catch block, which falls back to separate transactions
sendCallsSettled(answer) ==
  /\ pay.pc = "batch"
  /\ IF answer.kind = "sent" THEN
       pay' = [pay EXCEPT !.pc = "idle", !.txHash = "hash",
                          !.status = "success", !.usedBatchMode = TRUE,
                          !.sent = callsLength]
     ELSE
       pay' = executeSeparateTransactions([pay EXCEPT !.fallback = TRUE])
  /\ UNCHANGED <<client, server>>

\* walletClient.sendTransaction for calls[i] settled: on to the next call,
\* to the end of the loop, or to the outer catch block
sendTransactionSettled(answer) ==
  /\ pay.pc = "separate"
  /\ IF answer.kind = "sent" THEN
       IF pay.i + 1 < callsLength THEN
         pay' = [pay EXCEPT !.i = @ + 1, !.sent = @ + 1]
       ELSE
         pay' = [pay EXCEPT !.pc = "idle", !.sent = @ + 1,
                            !.txHash = "hash", !.status = "success",
                            !.usedBatchMode = FALSE,
                            !.errorMessage =
                              IF pay.fallback
                              THEN "Note: Batch mode failed"
                              ELSE @]
     ELSE
       pay' = paymentCatch(pay, answer.error)
  /\ UNCHANGED <<client, server>>

PayNext ==
  \/ \E k \in 1..callsLength, value \in RecipientInputs :
       setRecipient(k, value)
  \/ \E address \in Addrs \cup {""}, isCoinbase \in BOOLEAN, sdk \in BOOLEAN,
        walletClient \in BOOLEAN :
          handleSplitPayment(address, isCoinbase, sdk, walletClient)
  \/ \E answer \in WalletAnswers : sendCallsSettled(answer)
  \/ \E answer \in WalletAnswers : sendTransactionSettled(answer)

PaySpec == Init /\ [][PayNext]_vars

\* ======================================================================
\* Properties
\* ======================================================================
\* what a step shows of a consumeNonce(n) call made by POST
ConsumeTrue(n) ==
  \E r \in Reqs : /\ req[r].pc = "idle"
                  /\ req'[r].pc = "verifying"
                  /\ req'[r].nonce = n

ConsumeFalse(n) ==
  /\ resp = NoResp
  /\ resp'.op = "POST"
  /\ resp'.kind = "InvalidNonce"
  /\ resp'.nonce = n

ConsumeCall(n) == ConsumeTrue(n) \/ ConsumeFalse(n)

\* a request that consumed n hears from the verifier that it failed
VerifyFailed(n) ==
  /\ \E r \in Reqs : /\ req[r].pc = "verifying"
                     /\ req[r].nonce = n
                     /\ req'[r].pc = "idle"
  /\ resp'.kind \in {"InvalidSignature", "VerificationFailed"}

\* the TTL has elapsed since n was last added
TTLElapsed(n) == now > addedAt[n] + NonceTTL

\* the expiry timer set by the latest add of n has not run yet
TimerPending(n) == addNonceTimer(n, addedAt[n]) \in timers

InFlight(n) == {r \in Reqs : req[r].pc = "verifying" /\ req[r].nonce = n}

MintedFor(n) == {t \in 1..Len(minted) : minted[t].nonce = n}

\* C1: for a nonce issued once, the first consumeNonce(n) made within the
\* TTL returns true, and every consumeNonce(n) after a first one returns false.
C1_FirstConsumeOnly ==
  [][\A n \in Nonces :
       (issued[n] = 1 /\ ConsumeCall(n)) =>
         /\ (~tried[n] /\ now < addedAt[n] + NonceTTL) => ConsumeTrue(n)
         /\ tried[n] => ConsumeFalse(n)]_vars

C1_Witness ==
  \E n \in Nonces :
    /\ issued[n] = 1
    /\ passed[n] = 1
    /\ resp.op = "POST" /\ resp.kind = "InvalidNonce" /\ resp.nonce = n

\* C2: of the POST requests that carry one nonce, no more pass the nonce
\* check than the nonce was issued times (at most one for a nonce issued
\* once), no more sessions are created for it, and every request that does
\* not pass is answered 401 invalid nonce.
C2_OnePassPerIssue ==
  /\ [](\A n \in Nonces :
          /\ passed[n] <= issued[n]
          /\ Cardinality(MintedFor(n)) + Cardinality(InFlight(n)) <= passed[n])
  /\ [][\A n \in Nonces :
          (ConsumeCall(n) /\ passed[n] >= issued[n]) =>
            (ConsumeFalse(n) /\ resp'.status = 401)]_vars

C2_Witness ==
  \E n \in Nonces, t \in DOMAIN sessions :
    /\ issued[n] = 1
    /\ minted[t].nonce = n
    /\ resp.op = "POST" /\ resp.kind = "InvalidNonce" /\ resp.nonce = n
    /\ resp.status = 401

\* C3: of the consume calls made for one outstanding nonce (issued once)
\* by requests in flight together, exactly one returns true: the nonce is
\* gone after the first call, and no second call passes.
C3_ExactlyOneWinner ==
  \A n \in Nonces :
    issued[n] = 1 =>
      /\ passed[n] <= 1
      /\ Cardinality(InFlight(n)) <= 1
      /\ (tried[n] /\ TimerPending(n)) => (passed[n] = 1 /\ n \notin nonces)

C3_Witness ==
  \E n \in Nonces :
    /\ issued[n] = 1
    /\ TimerPending(n)
    /\ Cardinality(InFlight(n)) = 1
    /\ resp.op = "POST" /\ resp.kind = "InvalidNonce" /\ resp.nonce = n

\* C4 (as claimed): consumeNonce(n) returns false for every call made
\* after the TTL has elapsed since n was added, whether or not the expiry
\* timer has run.
C4_ExpiredRejected ==
  [][\A n \in Nonces : TTLElapsed(n) => ~ConsumeTrue(n)]_vars

\* C5 (as claimed): a request enters VERIFYING only with a nonce that was
\* in the store, had not expired and had not been consumed before, and no
\* nonce reaches the verifier in more attempts than it was issued.
C5_VerifyOnlyAfterConsume ==
  [][\A n \in Nonces :
       ConsumeTrue(n) =>
         /\ n \in nonces
         /\ n \notin nonces'
         /\ ~TTLElapsed(n)
         /\ passed[n] < issued[n]]_vars

\* C6: when the verifier answers false or fails, no session is created
\* and the nonce is not put back; a repetition of the request (the same
\* nonce, not issued again) is answered invalid nonce, not invalid signature.
C6_FailedVerifyBurnsNonce ==
  [][\A n \in Nonces :
       /\ VerifyFailed(n) =>
            /\ sessions' = sessions
            /\ minted' = minted
            /\ nonces' = nonces
       /\ (issued[n] = 1 /\ n \in burned) =>
            /\ n \notin nonces
            /\ ConsumeCall(n) => ConsumeFalse(n)]_vars

C6_Witness ==
  \E n \in Nonces :
    /\ issued[n] = 1
    /\ n \in burned
    /\ sessions = <<>>
    /\ resp.op = "POST" /\ resp.kind = "InvalidNonce" /\ resp.nonce = n

\* C7: every session in the store was created by a POST whose nonce was
\* consumed and for which the verifier answered true for the address the
\* session is bound to; nothing else adds a session.
C7_SessionsComeFromSignIn ==
  /\ [](\A t \in DOMAIN sessions :
          /\ t \in 1..Len(minted)
          /\ minted[t].verdict = "true"
          /\ minted[t].address = sessions[t].address
          /\ passed[minted[t].nonce] >= 1)
  /\ [][\A t \in DOMAIN sessions' \ DOMAIN sessions :
          /\ \E r \in Reqs : /\ req[r].pc = "verifying"
                             /\ req'[r].pc = "idle"
                             /\ req[r].address = sessions'[t].address
          /\ resp'.op = "POST" /\ resp'.kind = "OK"
          /\ resp'.token = t
          /\ resp'.address = sessions'[t].address]_vars

C7_Witness ==
  \E t \in DOMAIN sessions :
    /\ resp.op = "POST" /\ resp.kind = "OK" /\ resp.token = t
    /\ sessions[t].address = "a2"

\* C8: while a token is in the store the address and creation time stored
\* under it do not change, and a sign-in never binds a token that was
\* handed out before.
C8_SessionImmutable ==
  /\ [](\A t \in DOMAIN sessions :
          /\ t \in 1..Len(minted)
          /\ sessions[t].address = minted[t].address
          /\ sessions[t].createdAt = minted[t].createdAt)
  /\ [][\A t \in Tokens :
          /\ (t \in DOMAIN sessions /\ t \in DOMAIN sessions') =>
               /\ sessions'[t].address = sessions[t].address
               /\ sessions'[t].createdAt = sessions[t].createdAt
          /\ (t \in DOMAIN sessions' /\ t \notin DOMAIN sessions) =>
               t > Len(minted)
          /\ t <= Len(minted) =>
               (t <= Len(minted') /\ minted'[t] = minted[t])]_vars

C8_Witness ==
  \E t, u \in DOMAIN sessions :
    /\ t < u
    /\ sessions[t].address # sessions[u].address
    /\ sessions[t].createdAt < sessions[u].createdAt
    /\ resp.op = "GET" /\ resp.kind = "Valid" /\ resp.token = t

\* C9: for a token t returned by a sign-in for address a and not revoked,
\* the session GET answers valid with address a whenever now <= createdAt
\* + sevenDays, and invalid (401) whenever now is later.
C9_ValidUntilExpiry ==
  \A t \in 1..Len(minted) :
    (resp.op = "GET" /\ resp.token = t /\ t \notin revoked) =>
      IF now <= minted[t].createdAt + sevenDays
      THEN /\ resp.kind = "Valid"
           /\ resp.status = 200
           /\ resp.address = minted[t].address
           /\ resp.expires = minted[t].createdAt + sevenDays
      ELSE /\ resp.kind \in {"SessionExpired", "InvalidSession"}
           /\ resp.status = 401

C9_Witness ==
  \E t \in 1..Len(minted) :
    /\ t \notin revoked
    /\ t \notin DOMAIN sessions
    /\ now > minted[t].createdAt + sevenDays
    /\ resp.op = "GET" /\ resp.token = t /\ resp.kind = "SessionExpired"

\* C10: once a DELETE named a token a sign-in had returned, the token is
\* out of the store and every later session GET for it answers invalid.
C10_RevokedStaysInvalid ==
  \A t \in revoked :
    /\ t \notin DOMAIN sessions
    /\ (resp.op = "GET" /\ resp.token = t) =>
         (resp.kind = "InvalidSession" /\ resp.status = 401)

C10_Witness ==
  \E t \in revoked :
    /\ now <= minted[t].createdAt + sevenDays
    /\ resp.op = "GET" /\ resp.token = t /\ resp.kind = "InvalidSession"

\* C11: a DELETE that names a token leaves that token out of the store and
\* every other session as it was; a DELETE for a token that is not in the
\* store (never issued, or already revoked) changes nothing and is answered
\* with success like the first, so two calls leave the store as one does.
C11_RevokeIdempotent ==
  /\ []((resp.op = "DELETE" /\ resp.token # 0) =>
          /\ resp.token \notin DOMAIN sessions
          /\ again => (resp.kind = "SignedOut" /\ resp.status = 200))
  /\ [][\A t \in Tokens :
          (resp'.op = "DELETE" /\ resp'.token = t) =>
            /\ t \notin DOMAIN sessions'
            /\ DOMAIN sessions' = DOMAIN sessions \ {t}
            /\ \A u \in DOMAIN sessions' : sessions'[u] = sessions[u]
            /\ t \notin DOMAIN sessions =>
                 /\ sessions' = sessions
                 /\ resp'.kind = "SignedOut"
                 /\ resp'.status = 200]_vars

C11_Witness ==
  /\ again
  /\ resp.op = "DELETE" /\ resp.kind = "SignedOut"
  /\ resp.token \in revoked
  /\ DOMAIN sessions # {}

\* C12 (as claimed): every sign-out request whose body parses is answered
\* with success, whatever token it carries.
C12_AlwaysSuccess ==
  (resp.op = "DELETE" /\ resp.kind # "SignOutFailed") =>
    (resp.kind = "SignedOut" /\ resp.status = 200)

\* C12 (amended): every sign-out request that carries a non-empty token is
\* answered with success, whether or not the token is in the store; a
\* request without a token is answered 400, an unreadable body 500.
C12_SuccessForAnyToken ==
  resp.op = "DELETE" =>
    /\ resp.token # 0 => (resp.kind = "SignedOut" /\ resp.status = 200)
    /\ resp.token = 0 =>
         \/ (resp.kind = "MissingToken" /\ resp.status = 400)
         \/ (resp.kind = "SignOutFailed" /\ resp.status = 500)

C12_Witness ==
  /\ resp.op = "DELETE" /\ resp.kind = "SignedOut" /\ resp.status = 200
  /\ resp.token > Len(minted)
  /\ DOMAIN sessions # {}

\* the lines of a message that carry a nonce
NonceLines(message) == {i \in 1..Len(message) : message[i] \in Nonces}

\* the request bodies whose message has no "Nonce:" line
NoNonceBodies == {body \in Bodies : NonceLines(body.message) = {}}

\* what every step of a POST handler shows (a cheap test to make first)
PostStep == resp = NoResp /\ (resp'.op = "POST" \/ req' # req)

\* C13: a POST whose message has no "Nonce:" line is answered 400 (as
\* MalformedMessage when the three fields are present) and leaves the nonce
\* store, its timers, the sessions and the requests in flight as they were.
C13_NoNonceLineTouchesNothing ==
  [][PostStep =>
       \A r \in Reqs, body \in NoNonceBodies :
         POSTBodyWith(r, body) =>
           /\ resp'.status = 400
           /\ ~missingFields(body) => resp'.kind = "MalformedMessage"
           /\ nonces' = nonces
           /\ timers' = timers
           /\ sessions' = sessions
           /\ minted' = minted
           /\ req' = req]_vars

C13_Witness ==
  /\ resp.op = "POST" /\ resp.kind = "MalformedMessage" /\ resp.status = 400
  /\ nonces # {}
  /\ DOMAIN sessions # {}

\* the request bodies whose message has more than one "Nonce:" line
ManyNonceBodies == {body \in Bodies : Cardinality(NonceLines(body.message)) > 1}

\* C14 (as claimed): a POST whose message has more than one "Nonce:" line
\* is answered MalformedMessage and no nonce is consumed for it.
C14_AmbiguousNonceRejected ==
  [][PostStep =>
       \A r \in Reqs, body \in ManyNonceBodies :
         POSTBodyWith(r, body) =>
           /\ resp'.kind = "MalformedMessage"
           /\ resp'.status = 400
           /\ nonces' = nonces
           /\ req' = req]_vars

\* C15 (as claimed): when the verifier answers false the request fails as
\* invalid signature with 401; when the verifier itself fails the request
\* fails with 500 and not as invalid signature.
C15_VerifierErrorIs500 ==
  [][PostStep =>
       \A r \in Reqs :
         /\ POSTVerifiedWith(r, "false") =>
              (resp'.kind = "InvalidSignature" /\ resp'.status = 401)
         /\ POSTVerifiedWith(r, "throw") =>
              (resp'.kind # "InvalidSignature" /\ resp'.status = 500)]_vars

\* C16 (as claimed): the session GET answers a token whose session has
\* expired exactly as it answers a token that is not in the store.
C16_ExpiryLooksLikeAbsence ==
  (resp.op = "GET" /\ resp.token # 0 /\ resp.kind # "Valid") =>
    resp = Resp("GET", "InvalidSession", 401, "", resp.token, "", 0)

\* C17: a POST that ends in a failure response creates no session; the step
\* that sends the failure changes neither store, and the only change the
\* request makes before it is the removal, by consumeNonce, of the nonce
\* its message names.
C17_FailureLeavesStores ==
  [][PostStep =>
       /\ (resp'.op = "POST" /\ resp'.kind # "OK") =>
            /\ sessions' = sessions
            /\ minted' = minted
            /\ nonces' = nonces
            /\ timers' = timers
       /\ \A n \in Nonces :
            ConsumeTrue(n) =>
              /\ sessions' = sessions
              /\ minted' = minted
              /\ nonces' = nonces \ {n}
              /\ timers' = timers]_vars

C17_Witness ==
  /\ resp.op = "POST"
  /\ resp.kind \in {"InvalidSignature", "VerificationFailed"}
  /\ resp.nonce \notin nonces
  /\ nonces # {}
  /\ DOMAIN sessions = {}

\* C18 (as claimed): the session GET changes neither the session store nor
\* the nonce store.
C18_CheckSessionPureRead ==
  [][(resp = NoResp /\ resp'.op = "GET") =>
       (sessions' = sessions /\ nonces' = nonces)]_vars

\* C18 (amended): the session GET leaves the nonce store as it is, and the
\* session store too, except that it removes the session of the token it was
\* asked about when that session is past its expiresAt.
C18_ReadExceptLazyExpiry ==
  [][\A t \in TokenInputs :
       (resp = NoResp /\ resp'.op = "GET" /\ resp'.token = t) =>
         /\ nonces' = nonces
         /\ timers' = timers
         /\ req' = req
         /\ IF t \in DOMAIN sessions /\ now > sessions[t].expiresAt
            THEN /\ DOMAIN sessions' = DOMAIN sessions \ {t}
                 /\ \A u \in DOMAIN sessions' : sessions'[u] = sessions[u]
            ELSE sessions' = sessions]_vars

C18_Witness ==
  \E t \in 1..Len(minted) :
    /\ resp.op = "GET" /\ resp.kind = "SessionExpired" /\ resp.token = t
    /\ resp.status = 401
    /\ t \notin DOMAIN sessions
    /\ DOMAIN sessions # {}

\* C19 (as claimed): every POST that reached the verifier call is
\* eventually answered, whether or not the verifier ever settles.
C19_SignInReturns ==
  \A r \in Reqs : (req[r].pc = "verifying") ~> (req[r].pc = "idle")

\* a step in which a call of signOut ends
SignOutEnds ==
  \/ signOutStart /\ calls'.signOut.pc = "idle"
  \/ \E outcome \in FetchOutcomes : signOutSettled(outcome)

\* C20 (as claimed): when a call of signOut ends, the hook's state is the
\* unauthenticated one and localStorage holds neither sessionToken nor
\* userAddress, however the DELETE fetch settled.
C20_SignOutClears ==
  [][SignOutEnds =>
       /\ ~authState'.isAuthenticated
       /\ authState'.address = ""
       /\ authState'.sessionToken = 0
       /\ localStorage' = emptyStorage]_vars

\* C22: when the session GET finds the token it was asked about in the
\* store with now > expiresAt, it answers 401 and the token is out of the
\* store when the answer is sent.
C22_ExpiredFoundIsDeleted ==
  [][\A t \in Tokens :
       (/\ resp = NoResp
        /\ resp'.op = "GET"
        /\ resp'.token = t
        /\ t \in DOMAIN sessions
        /\ now > sessions[t].expiresAt) =>
         /\ resp'.status = 401
         /\ resp'.kind # "Valid"
         /\ t \notin DOMAIN sessions']_vars

C22_Witness ==
  \E t \in 1..Len(minted) :
    /\ resp.op = "GET" /\ resp.token = t /\ resp.status = 401
    /\ resp.kind = "SessionExpired"
    /\ now = minted[t].createdAt + sevenDays + 1
    /\ t \notin DOMAIN sessions

\* a step in which the expiry timer of nonce n runs
TimerRuns(n) ==
  /\ timers' # timers
  /\ timers' \subseteq timers
  /\ \E tm \in timers \ timers' : tm.nonce = n

\* C23: for a nonce issued once and for every session, expiry and the
\* requests may come in either order: once the timer has run the nonce is
\* gone and consumeNonce returns false; a timer that runs after the nonce was
\* consumed changes nothing in the store; consumeNonce never returns true
\* twice; a nonce comes back only by being issued again and a token that
\* left the session store never returns; the sweep removes the expired
\* sessions and no others, whatever the session GET removed before it.
C23_ExpiryRacesAreBenign ==
  /\ [](\A n \in Nonces :
          issued[n] = 1 =>
            /\ passed[n] <= 1
            /\ ~TimerPending(n) => n \notin nonces)
  /\ [][/\ \A n \in Nonces :
             /\ (issued[n] = 1 /\ ~TimerPending(n) /\ ConsumeCall(n)) =>
                  ConsumeFalse(n)
             /\ (TimerRuns(n) /\ n \notin nonces) => nonces' = nonces
             /\ (TimerRuns(n) /\ issued[n] = 1 /\ passed[n] = 0) =>
                  (n \in nonces /\ n \notin nonces')
             /\ (n \in nonces' /\ n \notin nonces) => issued'[n] = issued[n] + 1
        /\ \A t \in Tokens :
             /\ (t \in DOMAIN sessions' /\ t \notin DOMAIN sessions) =>
                  t = Len(minted) + 1
             /\ (/\ resp = NoResp /\ resp' = NoResp
                 /\ t \in DOMAIN sessions /\ t \notin DOMAIN sessions') =>
                  now > sessions[t].expiresAt]_vars

C23_Witness ==
  \E n \in Nonces :
    /\ issued[n] = 1
    /\ passed[n] = 0
    /\ ~TimerPending(n)
    /\ resp.op = "POST" /\ resp.kind = "InvalidNonce" /\ resp.nonce = n

\* the token a step with a DELETE or session GET response names, else 0
NamedToken == IF resp'.op \in {"GET", "DELETE"} THEN resp'.token ELSE 0

\* C29: no step removes or changes the session of a token other than the
\* one the request names unless that session is past its expiresAt (a
\* sign-in only adds a new token), and no step removes a nonce other than the
\* one consumed or the one whose timer ran.
C29_OthersUntouched ==
  [][/\ \A u \in DOMAIN sessions :
          (u # NamedToken /\ now <= sessions[u].expiresAt) =>
            (u \in DOMAIN sessions' /\ sessions'[u] = sessions[u])
     /\ \A n \in Nonces :
          (n \in nonces /\ n \notin nonces') =>
            /\ nonces' = nonces \ {n}
            /\ ConsumeTrue(n) \/ TimerRuns(n)]_vars

C29_Witness ==
  \E t \in revoked, u \in DOMAIN sessions :
    /\ u # t
    /\ resp.op = "DELETE" /\ resp.kind = "SignedOut" /\ resp.token = t
    /\ now <= sessions[u].expiresAt
    /\ now > minted[t].createdAt + sevenDays

\* C26: every stored session has expiresAt = createdAt + sevenDays, and the
\* answer to a successful sign-in reports expiresIn = 604800 (seven days in
\* seconds) with the token of the new session and the address bound to it.
C26_SessionTTL ==
  /\ \A t \in DOMAIN sessions :
       sessions[t].expiresAt = sessions[t].createdAt + sevenDays
  /\ (resp.op = "POST" /\ resp.kind = "OK") =>
       /\ resp.expires = 604800
       /\ resp.expires * 1000 = sevenDaysMs
       /\ resp.token \in DOMAIN sessions
       /\ resp.address = sessions[resp.token].address
       /\ sessions[resp.token].createdAt = now

C26_Witness ==
  /\ resp.op = "POST" /\ resp.kind = "OK" /\ resp.expires = 604800
  /\ resp.token = 2
  /\ sessions[2].createdAt > 0
  /\ sessions[2].expiresAt = sessions[2].createdAt + sevenDays

\* C28 (as claimed): a nonce is removed by expiry only when the TTL counted
\* from its latest add has elapsed: the timer of an earlier add does not
\* remove the value that was added again.
C28_LatestAddCounts ==
  [][\A n \in Nonces :
       (TimerRuns(n) /\ n \in nonces /\ n \notin nonces') =>
         now >= addedAt[n] + NonceTTL]_vars

\* C25 (as claimed): verifyNonce answers true exactly when the nonce is
\* stored and its TTL has not elapsed.
C25_ExistsIffLive ==
  (resp.op = "verifyNonce") =>
    ((resp.kind = "true") <=>
       (resp.nonce \in nonces /\ ~TTLElapsed(resp.nonce)))

\* the clock of the model reaches the time at which n's latest timer is due
DueInTime(n) == addedAt[n] + NonceTTL <= MaxTime

\* C24: a stored nonce is eventually removed, consumed or not, and a session
\* whose expiresAt has passed is eventually removed, with no session GET and
\* no DELETE in the run.
C24_ExpiredArePurged ==
  /\ \A n \in Nonces :
       (n \in nonces /\ DueInTime(n)) ~> (n \notin nonces)
  /\ \A t \in Tokens :
       (t \in DOMAIN sessions /\ now > sessions[t].expiresAt)
         ~> (t \notin DOMAIN sessions)

\* a nonce nobody tried to consume is gone, and so is a session past expiry
C24_Witness ==
  /\ \E n \in Nonces : issued[n] = 1 /\ ~tried[n] /\ n \notin nonces
  /\ \E t \in 1..Len(minted) :
       /\ t \notin DOMAIN sessions
       /\ t \notin revoked

\* a step that ends the mount check
CheckEnds == calls.checkSession.pc # "done" /\ calls'.checkSession.pc = "done"

\* the session the client holds is the same before and after the step
SameSession ==
  /\ authState'.isAuthenticated = authState.isAuthenticated
  /\ authState'.sessionToken = authState.sessionToken
  /\ authState'.address = authState.address

\* C27: the mount check makes the client authenticated, with the stored
\* token and address, exactly when localStorage held both and the session GET
\* answered ok; in every other case it leaves the client's session as it was,
\* and on a response that is not ok it removes both items; however the check
\* ends, isLoading is false then, and it stays false while no signIn runs.
C27_MountRestores ==
  [][/\ checkSessionSettled("ok") =>
          /\ calls.checkSession.token # 0
          /\ calls.checkSession.address # ""
          /\ authState' = authenticated(calls.checkSession.address,
                                        calls.checkSession.token)
          /\ localStorage' = localStorage
     /\ (checkSessionStart \/ checkSessionSettled("notok")
           \/ checkSessionSettled("reject")) => SameSession
     /\ (checkSessionStart /\ CheckEnds) =>
          (localStorage.sessionToken = 0 \/ localStorage.userAddress = "")
     /\ (checkSessionStart /\ ~CheckEnds) =>
          /\ calls'.checkSession.token = localStorage.sessionToken
          /\ calls'.checkSession.address = localStorage.userAddress
          /\ localStorage.sessionToken # 0 /\ localStorage.userAddress # ""
     /\ checkSessionSettled("notok") => localStorage' = emptyStorage
     /\ CheckEnds => ~authState'.isLoading
     /\ (calls'.checkSession.pc = "done" /\ calls'.signIn.pc = "idle") =>
          ~authState'.isLoading]_vars

\* the page was loaded again with both items stored, and the check restored
\* the session from them
C27_Witness ==
  /\ calls.checkSession.pc = "done"
  /\ calls.checkSession.token # 0
  /\ calls.signIn.pc = "idle"
  /\ authState = authenticated(calls.checkSession.address,
                               calls.checkSession.token)
  /\ localStorage = [sessionToken |-> calls.checkSession.token,
                     userAddress |-> calls.checkSession.address]

\* a step in which signIn ends in its catch block
SignInFails ==
  /\ calls.signIn.pc # "idle"
  /\ calls'.signIn.pc = "idle"
  /\ authState'.error # ""

\* C30: an authenticated client holds a session token and an address; the
\* client becomes authenticated only in the step that receives the server's ok
\* to the verify POST or to the session GET, with the token of that answer;
\* a signIn that fails leaves isAuthenticated, the token and localStorage as
\* they were.
C30_AuthenticatedByServer ==
  [][/\ authState'.isAuthenticated =>
          (authState'.sessionToken # 0 /\ authState'.address # "")
     /\ (~authState.isAuthenticated /\ authState'.isAuthenticated) =>
          \/ /\ checkSessionSettled("ok")
             /\ authState'.sessionToken = calls.checkSession.token
          \/ \E sessionToken \in Tokens :
               /\ signInVerified("ok", sessionToken, "")
               /\ authState'.sessionToken = sessionToken
               /\ localStorage'.sessionToken = sessionToken
     /\ SignInFails => (SameSession /\ localStorage' = localStorage)]_vars

\* a signIn failed at the verify POST for a wallet answer without an address
\* while the client was authenticated by an earlier one
C30_Witness ==
  /\ authState.isAuthenticated
  /\ authState.error = "Invalid signature"
  /\ authState.sessionToken # 0
  /\ calls.signIn.pc = "idle"

\* C21 (as claimed): when handleSplitPayment has ended, with success or with
\* error, all three transfers of the run were submitted or none was.
C21_AllOrNothing ==
  (pay.status \in {"success", "error"}) => (pay.sent \in {0, callsLength})

====
